---- MODULE Spec2Model ----
(***************************************************************************)
(* A model of .github/scripts/changelog/update_changelog.py: the commit    *)
(* filter, formatter, classifier, per-repository harvest and the changelog *)
(* assembler, as a state machine over successive runs of the script.       *)
(*                                                                         *)
(* Text is modelled character by character as TLA+ strings.  Two kinds of  *)
(* character cannot be written in a TLA+ string literal and are written    *)
(* as follows:                                                             *)
(*   - an emoji is written "{<code point>}", e.g. "{1F41B}" for the bug    *)
(*     glyph; an emoji is recognised as a unit (emoji.emoji_list);         *)
(*   - the backquote is written as an apostrophe (BT); no modelled         *)
(*     message holds an apostrophe of its own.                             *)
(***************************************************************************)
EXTENDS Integers, Sequences, FiniteSets, TLC

VARIABLES
    now,          \* wall clock, in slots since 2024-01-01 00:00 UTC
    repos,        \* [main, packages]: each repository's commits, newest first
    nextSha,      \* the next commit identity to hand out
    pkgPresent,   \* the packages repository directory exists and holds .git
    fileExists,   \* CHANGELOG.md exists
    doc,          \* the text of CHANGELOG.md
    pc,           \* position of the running update_changelog
    RELEASE_DATE, \* the run's release label
    DAYS_BACK,    \* the run's manual look-back ("" when unset)
    last_date,    \* update_changelog: last_date
    all_commits,  \* update_changelog: all_commits
    categorized_commits, \* update_changelog: categorized_commits
    content,      \* update_changelog: content
    new_entry,    \* update_changelog: new_entry (the list of strings)
    exit_status,  \* process exit status of the last run ("none" while running)
    writes,       \* writes of CHANGELOG.md performed by the current run
    docAtStart,   \* history: doc when the current run started
    preMerge,     \* history: content as read, before the merge step
    listed,       \* history: <<sha, label>> for every commit written under a label
    overrideUsed, \* history: some run so far had DAYS_BACK set
    runs,         \* number of runs started
    u_pc,         \* unit harness: position
    u_msg,        \* unit harness: commit message
    u_files,      \* unit harness: changed files
    u_out         \* unit harness: result

vars == <<now, repos, nextSha, pkgPresent, fileExists, doc, pc, RELEASE_DATE,
          DAYS_BACK, last_date, all_commits, categorized_commits, content,
          new_entry, exit_status, writes, docAtStart, preMerge, listed,
          overrideUsed, runs, u_pc, u_msg, u_files, u_out>>

runVars == <<now, repos, nextSha, pkgPresent, fileExists, doc, pc, RELEASE_DATE,
             DAYS_BACK, last_date, all_commits, categorized_commits, content,
             new_entry, exit_status, writes, docAtStart, preMerge, listed,
             overrideUsed, runs>>

unitVars == <<u_pc, u_msg, u_files, u_out>>

(***************************************************************************)
(* Strings                                                                 *)
(***************************************************************************)
BT == "'"
NL == "\n"

Char(s, i) == SubSeq(s, i, i)

UpperChars ==
    {"A", "B", "C", "D", "E", "F", "G", "H", "I", "J", "K", "L", "M",
     "N", "O", "P", "Q", "R", "S", "T", "U", "V", "W", "X", "Y", "Z"}
LowerChars ==
    {"a", "b", "c", "d", "e", "f", "g", "h", "i", "j", "k", "l", "m",
     "n", "o", "p", "q", "r", "s", "t", "u", "v", "w", "x", "y", "z"}
DigitChars == {"0", "1", "2", "3", "4", "5", "6", "7", "8", "9"}

\* str.lower() and str.upper() of one letter
LowerOf ==
    "A" :> "a" @@ "B" :> "b" @@ "C" :> "c" @@ "D" :> "d" @@ "E" :> "e" @@ "F" :> "f"
    @@ "G" :> "g" @@ "H" :> "h" @@ "I" :> "i" @@ "J" :> "j" @@ "K" :> "k" @@ "L" :> "l"
    @@ "M" :> "m" @@ "N" :> "n" @@ "O" :> "o" @@ "P" :> "p" @@ "Q" :> "q" @@ "R" :> "r"
    @@ "S" :> "s" @@ "T" :> "t" @@ "U" :> "u" @@ "V" :> "v" @@ "W" :> "w" @@ "X" :> "x"
    @@ "Y" :> "y" @@ "Z" :> "z"
UpperOf ==
    "a" :> "A" @@ "b" :> "B" @@ "c" :> "C" @@ "d" :> "D" @@ "e" :> "E" @@ "f" :> "F"
    @@ "g" :> "G" @@ "h" :> "H" @@ "i" :> "I" @@ "j" :> "J" @@ "k" :> "K" @@ "l" :> "L"
    @@ "m" :> "M" @@ "n" :> "N" @@ "o" :> "O" @@ "p" :> "P" @@ "q" :> "Q" @@ "r" :> "R"
    @@ "s" :> "S" @@ "t" :> "T" @@ "u" :> "U" @@ "v" :> "V" @@ "w" :> "W" @@ "x" :> "X"
    @@ "y" :> "Y" @@ "z" :> "Z"

IsUpper(c) == c \in UpperChars
IsLower(c) == c \in LowerChars
IsDigit(c) == c \in DigitChars
IsSpace(c) == c \in {" ", "\n", "\t", "\r"}
\* \w of a Python regular expression, on the characters the model uses
IsWord(c) == IsUpper(c) \/ IsLower(c) \/ IsDigit(c) \/ c = "_"

LowerChar(c) == IF IsUpper(c) THEN LowerOf[c] ELSE c
UpperChar(c) == IF IsLower(c) THEN UpperOf[c] ELSE c

RECURSIVE Lower(_)
Lower(s) == IF s = "" THEN "" ELSE LowerChar(Head(s)) \o Lower(Tail(s))

\* s[i:] and s[:i] with 0-based Python offsets
From(s, i) == IF i >= Len(s) THEN "" ELSE SubSeq(s, i + 1, Len(s))
Upto(s, i) == IF i <= 0 THEN "" ELSE SubSeq(s, 1, IF i > Len(s) THEN Len(s) ELSE i)

\* lit occurs in s at 1-based position i
At(s, i, lit) ==
    /\ i >= 1
    /\ i + Len(lit) - 1 <= Len(s)
    /\ SubSeq(s, i, i + Len(lit) - 1) = lit

StartsWith(s, lit) == At(s, 1, lit)
EndsWith(s, lit) == At(s, Len(s) - Len(lit) + 1, lit)

\* the 1-based positions of s at which lit occurs
Occurrences(s, lit) ==
    LET n == Len(lit) IN {i \in 1..(Len(s) - n + 1) : SubSeq(s, i, i + n - 1) = lit}

\* str.find: 1-based position of the first occurrence, 0 when there is none
Find(s, lit) ==
    LET hits == Occurrences(s, lit)
    IN  IF hits = {} THEN 0 ELSE CHOOSE i \in hits : \A j \in hits : i <= j

\* lit in s
Contains(s, lit) ==
    LET n == Len(lit) IN \E i \in 1..(Len(s) - n + 1) : SubSeq(s, i, i + n - 1) = lit

\* number of positions of s at which lit occurs
Count(s, lit) == Cardinality(Occurrences(s, lit))

RECURSIVE LStrip(_)
LStrip(s) == IF s # "" /\ IsSpace(Head(s)) THEN LStrip(Tail(s)) ELSE s
RECURSIVE RStrip(_)
RStrip(s) ==
    IF s # "" /\ IsSpace(Char(s, Len(s))) THEN RStrip(SubSeq(s, 1, Len(s) - 1)) ELSE s
\* str.strip()
Strip(s) == RStrip(LStrip(s))

\* str.split('\n')[0]
FirstLine(s) == LET p == Find(s, NL) IN IF p > 0 THEN Upto(s, p - 1) ELSE s

\* the lines of s, as str.split('\n') gives them
RECURSIVE SplitLines(_)
SplitLines(s) ==
    LET p == Find(s, NL) IN
    IF p > 0 THEN <<Upto(s, p - 1)>> \o SplitLines(From(s, p)) ELSE <<s>>

\* '\n'.join(lines)
RECURSIVE JoinLines(_)
JoinLines(ls) ==
    IF Len(ls) = 0 THEN ""
    ELSE IF Len(ls) = 1 THEN ls[1]
    ELSE ls[1] \o NL \o JoinLines(Tail(ls))

\* ''.join(parts)
RECURSIVE Concat(_)
Concat(parts) == IF Len(parts) = 0 THEN "" ELSE parts[1] \o Concat(Tail(parts))

\* \b of a regular expression between positions i-1 and i (1-based) of s
Boundary(s, i) ==
    LET before == i > 1 /\ i - 1 <= Len(s) /\ IsWord(Char(s, i - 1))
        after == i >= 1 /\ i <= Len(s) /\ IsWord(Char(s, i))
    IN  before # after

\* \blit\b matches at position i of s
WordAt(s, i, lit) == At(s, i, lit) /\ Boundary(s, i) /\ Boundary(s, i + Len(lit))
HasWord(s, lit) == \E i \in 1..Len(s) : WordAt(s, i, lit)

\* the regular expression a.*b matches somewhere in s ('.' stops at a newline)
HasThen(s, a, b) ==
    \E i \in 1..Len(s) :
        /\ At(s, i, a)
        /\ \E j \in (i + Len(a))..(Len(s) + 1) :
               /\ At(s, j, b)
               /\ ~Contains(SubSeq(s, i + Len(a), j - 1), NL)

\* the regular expression a.*#\d+ matches somewhere in s
HasThenIssue(s, a) == \E d \in DigitChars : HasThen(s, a, "#" \o d)

HasAny(s, lits) == \E l \in lits : Contains(s, l)

\* length of the longest run of characters satisfying a class at the start of s
RECURSIVE WordRun(_)
WordRun(s) == IF s # "" /\ IsWord(Head(s)) THEN 1 + WordRun(Tail(s)) ELSE 0
RECURSIVE DigitRun(_)
DigitRun(s) == IF s # "" /\ IsDigit(Head(s)) THEN 1 + DigitRun(Tail(s)) ELSE 0
RECURSIVE SpaceRun(_)
SpaceRun(s) == IF s # "" /\ IsSpace(Head(s)) THEN 1 + SpaceRun(Tail(s)) ELSE 0
RECURSIVE LowerRun(_)
LowerRun(s) == IF s # "" /\ IsLower(Head(s)) THEN 1 + LowerRun(Tail(s)) ELSE 0

(***************************************************************************)
(* Static tables                                                           *)
(***************************************************************************)
\* FILTER_CONFIG (no .changelog-config.json is present: load_config changes nothing)
exclude_merge_commits == TRUE
include_workflow_commits == TRUE

\* EMOJI_MAP, in declared order: <<keyword, glyph>>
EMOJI_MAP ==
    << <<"fix", "{1F41B}">>, <<"bug", "{1F41B}">>, <<"hotfix", "{1F691}">>,
       <<"security", "{1F512}">>, <<"breaking", "{1F4A5}">>, <<"feature", "{2728}">>,
       <<"feat", "{2728}">>, <<"add", "{2795}">>, <<"new", "{1F195}">>,
       <<"improve", "{1F31F}">>, <<"enhance", "{1F31F}">>, <<"optimize", "{26A1}">>,
       <<"perf", "{26A1}">>, <<"refactor", "{267B}">>, <<"update", "{1F504}">>,
       <<"upgrade", "{1F53C}">>, <<"bump", "{1F53C}">>, <<"deps", "{1F4E6}">>,
       <<"docs", "{1F4DD}">>, <<"doc", "{1F4DD}">>, <<"test", "{1F9EA}">>,
       <<"build", "{1F3D7}">>, <<"ci", "{1F504}">>, <<"workflow", "{1F504}">>,
       <<"style", "{1F3A8}">>, <<"chore", "{1F9F9}">>, <<"cleanup", "{1F9F9}">>,
       <<"revert", "{23EA}">>, <<"remove", "{1F5D1}">>, <<"config", "{2699}">>,
       <<"ui", "{1F485}">>, <<"translation", "{1F310}">>, <<"i18n", "{1F310}">>,
       <<"network", "{1F50C}">>, <<"core", "{1F34C}">>, <<"package", "{1F4E6}">>,
       <<"misc", "{1F6E0}">> >>

\* the keys of CATEGORIES, in declared order
CategoryOrder ==
    <<"security_critical", "features", "improvements", "bugfixes", "bananawrt_core",
      "packages", "build_ci", "documentation", "other">>

\* CATEGORIES[c]['name']
CategoryName(c) ==
    CASE c = "security_critical" -> "{1F512} Security & Critical Fixes"
      [] c = "features" -> "{2728} New Features"
      [] c = "improvements" -> "{1F31F} Improvements & Enhancements"
      [] c = "bugfixes" -> "{1F41B} Bug Fixes"
      [] c = "bananawrt_core" -> "{1F34C} BananaWRT Core"
      [] c = "packages" -> "{1F4E6} Packages & Applications"
      [] c = "build_ci" -> "{1F504} Build System & CI"
      [] c = "documentation" -> "{1F4DD} Documentation"
      [] c = "other" -> "{1F6E0} Other Changes"

\* CATEGORIES[c]['priority']
CategoryPriority(c) ==
    CASE c = "security_critical" -> 1
      [] c = "features" -> 2
      [] c = "improvements" -> 3
      [] c = "bugfixes" -> 4
      [] c = "bananawrt_core" -> 5
      [] c = "packages" -> 6
      [] c = "build_ci" -> 7
      [] c = "documentation" -> 8
      [] c = "other" -> 99

KnownPackages == {"banana-utils", "linkup-optimization", "modemband", "sms-tool"}

\* ^(\w+):\s*(add|update|fix|bump) matches s
PrefixVerb(s) ==
    LET n == WordRun(s)
        rest == From(s, n + 1)
        after == From(rest, SpaceRun(rest))
    IN  /\ n >= 1
        /\ At(s, n + 1, ":")
        /\ \E v \in {"add", "update", "fix", "bump"} : StartsWith(after, v)

\* the number of message patterns of category c, and whether the k-th one
\* matches the lower-cased message m (re.search)
NumPatterns(c) ==
    CASE c \in {"security_critical", "features", "improvements", "bugfixes", "packages"} -> 2
      [] c \in {"bananawrt_core", "build_ci", "documentation"} -> 1
      [] OTHER -> 0

PatternMatches(c, k, m) ==
    CASE c = "security_critical" /\ k = 1 ->
             HasAny(m, {"security", "cve", "vulnerability", "exploit", "auth",
                        "crypto", "ssl", "tls", "certificate"})
      [] c = "security_critical" /\ k = 2 ->
             HasAny(m, {"critical", "emergency", "hotfix", "urgent"})
      [] c = "features" /\ k = 1 ->
             \/ StartsWith(m, "feat:") \/ StartsWith(m, "feature:")
             \/ HasThen(m, "add", "feature") \/ HasThen(m, "new", "feature")
             \/ Contains(m, "implement")
      [] c = "features" /\ k = 2 ->
             Contains(m, "introduce") \/ HasThen(m, "create", "new")
      [] c = "improvements" /\ k = 1 ->
             \/ HasAny(m, {"improve", "enhance", "optimize", "refactor", "better"})
             \/ HasThen(m, "update", "logic")
      [] c = "improvements" /\ k = 2 ->
             HasAny(m, {"performance", "speed", "faster"})
      [] c = "bugfixes" /\ k = 1 ->
             HasAny(m, {"fix:", "bug:", "resolve", "correct", "repair", "patch"})
      [] c = "bugfixes" /\ k = 2 ->
             HasThenIssue(m, "issue") \/ HasThenIssue(m, "fixes")
      [] c = "bananawrt_core" /\ k = 1 ->
             HasAny(m, {"kernel", "dts", "openwrt", "firmware", "bootloader", "uboot"})
      [] c = "packages" /\ k = 1 ->
             Contains(m, "luci-app-") \/ Contains(m, "package:") \/ PrefixVerb(m)
      [] c = "packages" /\ k = 2 ->
             HasAny(m, KnownPackages)
      [] c = "build_ci" /\ k = 1 ->
             \/ HasAny(m, {"workflow", "ci:", "cd:", "build:", "cmake", "makefile"})
             \/ HasThen(m, "github", "action")
      [] c = "documentation" /\ k = 1 ->
             \/ StartsWith(m, "docs:")
             \/ HasAny(m, {"documentation", "readme", "changelog", "wiki"})
      [] OTHER -> FALSE

\* the number of file patterns of category c, and whether the k-th one matches
\* the path whose lower-cased text is p (re.search with re.IGNORECASE)
NumFilePatterns(c) ==
    CASE c = "security_critical" -> 3
      [] c = "bananawrt_core" -> 5
      [] c = "packages" -> 3
      [] c = "build_ci" -> 5
      [] c = "documentation" -> 4
      [] OTHER -> 0

FilePatternMatches(c, k, p) ==
    CASE c = "security_critical" /\ k = 1 -> Contains(p, "security/")
      [] c = "security_critical" /\ k = 2 -> Contains(p, "auth/")
      [] c = "security_critical" /\ k = 3 -> Contains(p, "crypto/")
      [] c = "bananawrt_core" /\ k = 1 -> Contains(p, "target/")
      [] c = "bananawrt_core" /\ k = 2 -> Contains(p, "kernel/")
      [] c = "bananawrt_core" /\ k = 3 -> Contains(p, ".dts")
      [] c = "bananawrt_core" /\ k = 4 -> Contains(p, ".dtsi")
      [] c = "bananawrt_core" /\ k = 5 -> Contains(p, "config/config-kernel")
      [] c = "packages" /\ k = 1 -> Contains(p, "package/")
      [] c = "packages" /\ k = 2 -> Contains(p, "feeds/")
      [] c = "packages" /\ k = 3 -> Contains(p, "luci/")
      [] c = "build_ci" /\ k = 1 -> Contains(p, ".github/")
      [] c = "build_ci" /\ k = 2 -> EndsWith(p, ".yml")
      [] c = "build_ci" /\ k = 3 -> EndsWith(p, ".yaml")
      [] c = "build_ci" /\ k = 4 -> Contains(p, "makefile")
      [] c = "build_ci" /\ k = 5 -> Contains(p, "cmakelists.txt")
      [] c = "documentation" /\ k = 1 -> Contains(p, "readme")
      [] c = "documentation" /\ k = 2 -> Contains(p, "changelog")
      [] c = "documentation" /\ k = 3 -> EndsWith(p, ".md")
      [] c = "documentation" /\ k = 4 -> Contains(p, "docs/")
      [] OTHER -> FALSE

(***************************************************************************)
(* Classifier                                                              *)
(***************************************************************************)
\* the lower-cased paths, in order
RECURSIVE LowerAll(_)
LowerAll(files) ==
    IF Len(files) = 0 THEN <<>> ELSE <<Lower(files[1])>> \o LowerAll(Tail(files))

\* the inner loops over files_changed and file_patterns: +1 for every pair of a
\* changed file and a file pattern of c that matches it
RECURSIVE FileScore(_, _)
FileScore(c, lowered_files) ==
    IF Len(lowered_files) = 0 THEN 0
    ELSE Cardinality({k \in 1..NumFilePatterns(c) :
                         FilePatternMatches(c, k, lowered_files[1])})
         + FileScore(c, Tail(lowered_files))

\* the score categorize_commit accumulates for category c
CategoryScore(c, commit_msg_lower, lowered_files) ==
      2 * Cardinality({k \in 1..NumPatterns(c) : PatternMatches(c, k, commit_msg_lower)})
    + FileScore(c, lowered_files)

\* category_scores: <<category, score>> for the categories with a positive
\* score, in insertion order
RECURSIVE ScoresFrom(_, _, _)
ScoresFrom(i, commit_msg_lower, lowered_files) ==
    IF i > Len(CategoryOrder) THEN <<>>
    ELSE LET score == CategoryScore(CategoryOrder[i], commit_msg_lower, lowered_files) IN
         (IF score > 0 THEN << <<CategoryOrder[i], score>> >> ELSE <<>>)
             \o ScoresFrom(i + 1, commit_msg_lower, lowered_files)

category_scores(commit_msg, files_changed) ==
    ScoresFrom(1, Lower(commit_msg), LowerAll(files_changed))

\* max(category_scores, key=category_scores.get): the first entry that no later
\* entry exceeds
RECURSIVE MaxByFrom(_, _, _)
MaxByFrom(items, i, best) ==
    IF i > Len(items) THEN best
    ELSE IF items[i][2] > best[2]
         THEN MaxByFrom(items, i + 1, items[i])
         ELSE MaxByFrom(items, i + 1, best)

\* a max that keeps the last of several equal maxima
RECURSIVE MaxByLastFrom(_, _, _)
MaxByLastFrom(items, i, best) ==
    IF i > Len(items) THEN best
    ELSE IF items[i][2] >= best[2]
         THEN MaxByLastFrom(items, i + 1, items[i])
         ELSE MaxByLastFrom(items, i + 1, best)

MaxByLast(items) == MaxByLastFrom(items, 2, items[1])

MaxBy(items) == MaxByFrom(items, 2, items[1])

categorize_commit(commit_msg, files_changed) ==
    LET scores == category_scores(commit_msg, files_changed) IN
    IF Len(scores) > 0
    THEN LET best == MaxBy(scores) IN
         IF best[2] < 2 THEN "other" ELSE best[1]
    ELSE "other"

(***************************************************************************)
(* Filter                                                                  *)
(***************************************************************************)
\* the k-th of FILTER_CONFIG['exclude_patterns'] matches (re.search, IGNORECASE)
ExcludePatternMatches(k, message) ==
    LET m == Lower(message) IN
    CASE k = 1 -> \* ^typo:\s*fix
             /\ StartsWith(m, "typo:")
             /\ StartsWith(From(From(m, 5), SpaceRun(From(m, 5))), "fix")
      [] k = 2 -> \* ^docs:\s*update readme only
             /\ StartsWith(m, "docs:")
             /\ StartsWith(From(From(m, 5), SpaceRun(From(m, 5))), "update readme only")
      [] k = 3 -> \* ^style:\s*whitespace|spacing|indent
             \/ /\ StartsWith(m, "style:")
                /\ StartsWith(From(From(m, 6), SpaceRun(From(m, 6))), "whitespace")
             \/ Contains(m, "spacing")
             \/ Contains(m, "indent")
      [] OTHER -> FALSE

should_skip_commit(commit) ==
    \/ exclude_merge_commits /\ commit.parents > 1
    \/ \E k \in 1..3 : ExcludePatternMatches(k, commit.message)
    \/ ~include_workflow_commits /\ Contains(Lower(commit.message), "workflow")

(***************************************************************************)
(* Formatter                                                               *)
(***************************************************************************)
\* the emoji at offset 0 of s ("" when s does not start with one)
LeadingEmoji(s) ==
    IF StartsWith(s, "{") /\ Contains(s, "}") THEN Upto(s, Find(s, "}")) ELSE ""

RECURSIVE FirstKeywordFrom(_, _)
FirstKeywordFrom(k, lowered) ==
    IF k > Len(EMOJI_MAP) THEN "{1F6E0}"
    ELSE IF HasWord(lowered, EMOJI_MAP[k][1]) THEN EMOJI_MAP[k][2]
    ELSE FirstKeywordFrom(k + 1, lowered)

get_emoji_for_commit(commit_msg) ==
    IF LeadingEmoji(commit_msg) # ""
    THEN LeadingEmoji(commit_msg)
    ELSE FirstKeywordFrom(1, Lower(commit_msg))

\* least element of a non-empty set of integers
Least(S) == CHOOSE i \in S : \A j \in S : i <= j

\* `([^`]+)` : positions at which the pattern matches, and its group there
QuotedStarts(s) ==
    {i \in 1..Len(s) : /\ At(s, i, BT)
                       /\ i + 1 <= Len(s)
                       /\ Char(s, i + 1) # BT
                       /\ Contains(From(s, i), BT)}
QuotedGroup(s, i) == Upto(From(s, i), Find(From(s, i), BT) - 1)

\* ^(\w+(?:-\w+)*): : the length of group 1, 0 when the pattern does not match
RECURSIVE DashedRun(_)
DashedRun(s) ==
    LET n == WordRun(s) IN
    IF n = 0 THEN 0
    ELSE IF At(s, n + 1, "-") /\ WordRun(From(s, n + 1)) > 0
         THEN n + 1 + DashedRun(From(s, n + 1))
         ELSE n
PrefixLen(s) ==
    LET n == DashedRun(s) IN IF n > 0 /\ At(s, n + 1, ":") THEN n ELSE 0

\* \b(luci-app-\w+)\b : positions at which the pattern matches (IGNORECASE)
LuciStarts(s) ==
    LET lowered == Lower(s) IN
    {i \in 1..Len(s) : /\ At(lowered, i, "luci-app-")
                       /\ Boundary(s, i)
                       /\ WordRun(From(s, i + 8)) > 0}
LuciGroup(s, i) == SubSeq(s, i, i + 8 + WordRun(From(s, i + 8)))

\* \b(banana-utils|linkup-optimization|modemband|sms-tool)\b
KnownStarts(s) ==
    LET lowered == Lower(s) IN
    {i \in 1..Len(s) : \E k \in KnownPackages : WordAt(lowered, i, k)}
KnownGroup(s, i) ==
    LET k == CHOOSE k \in KnownPackages : WordAt(Lower(s), i, k)
    IN  SubSeq(s, i, i + Len(k) - 1)

\* an extraction that does not know the conventional prefix
ExtractWithoutPrefix(message) ==
    IF QuotedStarts(message) # {} THEN QuotedGroup(message, Least(QuotedStarts(message)))
    ELSE IF LuciStarts(message) # {} THEN LuciGroup(message, Least(LuciStarts(message)))
    ELSE IF KnownStarts(message) # {} THEN KnownGroup(message, Least(KnownStarts(message)))
    ELSE ""

\* None is modelled as "" (no pattern can match the empty string)
extract_package_name(message) ==
    IF QuotedStarts(message) # {} THEN QuotedGroup(message, Least(QuotedStarts(message)))
    ELSE IF PrefixLen(message) > 0 THEN Upto(message, PrefixLen(message))
    ELSE IF LuciStarts(message) # {} THEN LuciGroup(message, Least(LuciStarts(message)))
    ELSE IF KnownStarts(message) # {} THEN KnownGroup(message, Least(KnownStarts(message)))
    ELSE ""

\* message[0].upper() + message[1:] unless upper-case already or ^[a-z]+: matches
Capitalize(message) ==
    IF /\ message # ""
       /\ ~IsUpper(Head(message))
       /\ ~(LowerRun(message) > 0 /\ At(message, LowerRun(message) + 1, ":"))
    THEN UpperChar(Head(message)) \o Tail(message)
    ELSE message

\* re.sub(r'\b' + re.escape(package_name) + r'\b', f'`{package_name}`', message,
\*        count=1, flags=re.IGNORECASE)
QuotePackage(message, package_name) ==
    LET lowered == Lower(message)
        name == Lower(package_name)
        hits == {i \in 1..Len(message) : WordAt(lowered, i, name)}
    IN  IF package_name # "" /\ ~Contains(message, BT) /\ hits # {}
        THEN LET i == Least(hits) IN
             Upto(message, i - 1) \o BT \o package_name \o BT
                 \o From(message, i - 1 + Len(package_name))
        ELSE message

\* (?:fixes?|closes?|resolves?)\s*#(\d+) : positions at which the pattern matches
\* (IGNORECASE), the 0-based offset behind the phrase, and group 1
IssuePhrases == <<"fixes", "fixe", "closes", "close", "resolves", "resolve">>
IssueAfter(s, i, k) ==
    LET behind == i - 1 + Len(IssuePhrases[k])
    IN  behind + SpaceRun(From(s, behind))
IssueAlternative(s, lowered, i, k) ==
    /\ At(lowered, i, IssuePhrases[k])
    /\ At(s, IssueAfter(s, i, k) + 1, "#")
    /\ DigitRun(From(s, IssueAfter(s, i, k) + 1)) > 0
IssueStarts(s) ==
    LET lowered == Lower(s) IN
    {i \in 1..Len(s) : \E k \in 1..Len(IssuePhrases) : IssueAlternative(s, lowered, i, k)}
IssueGroup(s, i) ==
    LET lowered == Lower(s)
        k == Least({k \in 1..Len(IssuePhrases) : IssueAlternative(s, lowered, i, k)})
        at == IssueAfter(s, i, k) + 1
    IN  Upto(From(s, at), DigitRun(From(s, at)))

AnnotateIssue(message) ==
    IF IssueStarts(message) # {}
    THEN LET issue_num == IssueGroup(message, Least(IssueStarts(message))) IN
         IF ~Contains(message, "(#" \o issue_num \o ")")
         THEN message \o " (#" \o issue_num \o ")"
         ELSE message
    ELSE message

\* the message format_commit_message hands to the issue annotation
PreparedMessage(raw) ==
    LET line == Strip(FirstLine(raw))
        message == IF LeadingEmoji(line) # ""
                   THEN Strip(From(line, Len(LeadingEmoji(line))))
                   ELSE line
    IN  QuotePackage(Capitalize(message), extract_package_name(message))

format_commit_message(raw, author) ==
    get_emoji_for_commit(Strip(FirstLine(raw))) \o " "
        \o AnnotateIssue(PreparedMessage(raw)) \o " by @" \o author

(***************************************************************************)
(* Dates.  A timestamp is a number of slots since 2024-01-01 00:00 UTC; a   *)
(* day has SlotsPerDay slots.                                              *)
(***************************************************************************)
SlotsPerDay == 2

DigitValue ==
    "0" :> 0 @@ "1" :> 1 @@ "2" :> 2 @@ "3" :> 3 @@ "4" :> 4
    @@ "5" :> 5 @@ "6" :> 6 @@ "7" :> 7 @@ "8" :> 8 @@ "9" :> 9

AllDigits(s) == s # "" /\ DigitRun(s) = Len(s)

\* the value of a string of digits
RECURSIVE ParseNat(_)
ParseNat(s) ==
    IF s = "" THEN 0
    ELSE 10 * ParseNat(SubSeq(s, 1, Len(s) - 1)) + DigitValue[Char(s, Len(s))]

IsLeap(y) == (y % 4 = 0 /\ y % 100 # 0) \/ y % 400 = 0
DaysInMonth(y, m) ==
    IF m = 2 THEN (IF IsLeap(y) THEN 29 ELSE 28)
    ELSE IF m \in {4, 6, 9, 11} THEN 30 ELSE 31
DaysInYear(y) == IF IsLeap(y) THEN 366 ELSE 365

\* %B
MonthName(m) ==
    <<"January", "February", "March", "April", "May", "June", "July", "August",
      "September", "October", "November", "December">>[m]

RECURSIVE DaysBeforeMonth(_, _)
DaysBeforeMonth(y, m) ==
    IF m <= 1 THEN 0 ELSE DaysInMonth(y, m - 1) + DaysBeforeMonth(y, m - 1)
RECURSIVE DaysBeforeYear(_)
DaysBeforeYear(y) ==
    IF y = 2024 THEN 0
    ELSE IF y > 2024 THEN DaysInYear(y - 1) + DaysBeforeYear(y - 1)
    ELSE DaysBeforeYear(y + 1) - DaysInYear(y)

\* days from 2024-01-01 to the date, and back
DayNumber(date) == DaysBeforeYear(date.y) + DaysBeforeMonth(date.y, date.m) + date.d - 1
RECURSIVE DateFrom(_, _, _)
DateFrom(y, m, n) ==
    IF n < 0 THEN DateFrom(y - 1, 1, n + DaysInYear(y - 1))
    ELSE IF m = 1 /\ n >= DaysInYear(y) THEN DateFrom(y + 1, 1, n - DaysInYear(y))
    ELSE IF n >= DaysInMonth(y, m) THEN DateFrom(y, m + 1, n - DaysInMonth(y, m))
    ELSE [y |-> y, m |-> m, d |-> n + 1]
DateOfDay(n) == DateFrom(2024, 1, n)

\* datetime.replace(tzinfo=utc) of a date: its midnight, as a timestamp
Midnight(date) == DayNumber(date) * SlotsPerDay
\* the date of a timestamp
DateOf(t) == DateOfDay(t \div SlotsPerDay)

Pad(n, width) ==
    LET digits == ToString(n) IN
    IF Len(digits) >= width THEN digits
    ELSE SubSeq("0000", 1, width - Len(digits)) \o digits

\* strftime('%Y-%m-%d') and strftime('%B %d, %Y')
FormatIso(date) == Pad(date.y, 4) \o "-" \o Pad(date.m, 2) \o "-" \o Pad(date.d, 2)
FormatLong(date) == MonthName(date.m) \o " " \o Pad(date.d, 2) \o ", " \o Pad(date.y, 4)

\* datetime.strptime(s, '%Y-%m-%d'): the date, or ParseError for a ValueError
ParseError == [y |-> 0, m |-> 0, d |-> 0]
strptime(s) ==
    LET p1 == Find(s, "-")
        rest == From(s, p1)
        p2 == Find(rest, "-")
        ys == Upto(s, p1 - 1)
        ms == Upto(rest, p2 - 1)
        ds == From(rest, p2)
    IN  IF /\ p1 > 0 /\ p2 > 0
           /\ AllDigits(ys) /\ Len(ys) = 4
           /\ AllDigits(ms) /\ Len(ms) <= 2
           /\ AllDigits(ds) /\ Len(ds) <= 2
           /\ ParseNat(ys) >= 1
           /\ ParseNat(ms) \in 1..12
           /\ ParseNat(ds) \in 1..DaysInMonth(ParseNat(ys), ParseNat(ms))
        THEN [y |-> ParseNat(ys), m |-> ParseNat(ms), d |-> ParseNat(ds)]
        ELSE ParseError

\* int(s): whether it converts
IsInt(s) ==
    \/ AllDigits(s)
    \/ Len(s) > 1 /\ Head(s) \in {"+", "-"} /\ AllDigits(Tail(s))
IntOf(s) ==
    IF AllDigits(s) THEN ParseNat(s)
    ELSE IF Head(s) = "-" THEN 0 - ParseNat(Tail(s)) ELSE ParseNat(Tail(s))

(***************************************************************************)
(* Harvest                                                                 *)
(***************************************************************************)
DefaultLookbackDays == 30

\* ## \[(\d{4}-\d{2}-\d{2})\] : positions at which the pattern matches
IsoShape(t) ==
    /\ Len(t) = 10
    /\ AllDigits(SubSeq(t, 1, 4)) /\ Char(t, 5) = "-"
    /\ AllDigits(SubSeq(t, 6, 7)) /\ Char(t, 8) = "-"
    /\ AllDigits(SubSeq(t, 9, 10))
HeadingDateStarts(text) ==
    {i \in Occurrences(text, "## [") :
                          /\ At(text, i + 14, "]")
                          /\ IsoShape(SubSeq(text, i + 4, i + 13))}

get_last_changelog_date(days_back, file_exists, text, clock) ==
    IF days_back # "" /\ IsInt(days_back)
    THEN clock - IntOf(days_back) * SlotsPerDay
    ELSE LET date_matches == IF file_exists THEN HeadingDateStarts(text) ELSE {}
             last_date_str == SubSeq(text, Least(date_matches) + 4,
                                     Least(date_matches) + 13)
         IN  IF date_matches # {} /\ strptime(last_date_str) # ParseError
             THEN Midnight(strptime(last_date_str))
             ELSE clock - DefaultLookbackDays * SlotsPerDay

AutomationName == "GitHub Actions"
FallbackAuthor == "SuperKali"

\* the author get_recent_commits resolves for a commit
ResolveAuthor(commit) ==
    IF commit.author = AutomationName
    THEN (IF commit.committer # AutomationName THEN commit.committer ELSE FallbackAuthor)
    ELSE commit.author

\* md5 of "sha:author:date", taken to be free of collisions
get_commit_hash(commit) ==
    <<"md5", commit.sha \o ":" \o commit.author \o ":" \o ToString(commit.date)>>

\* what the developers commit, and where: message, author, committer, number
\* of parents and changed files
CommitKinds ==
    << [repo |-> "main", message |-> "fix: resolve login crash", author |-> "alice",
        committer |-> "alice", parents |-> 1, files |-> <<>>],
       [repo |-> "packages", message |-> "update docs", author |-> AutomationName,
        committer |-> AutomationName, parents |-> 1, files |-> <<"README.md">>],
       [repo |-> "main", message |-> "Merge branch main", author |-> "bob",
        committer |-> "bob", parents |-> 2, files |-> <<>>] >>

\* what the script reads of a commit besides its sha and date
ContentOf(commit) ==
    [message |-> commit.message, author |-> commit.author,
     committer |-> commit.committer, parents |-> commit.parents,
     files |-> commit.files]

\* should_skip_commit, format_commit_message and categorize_commit as
\* get_recent_commits applies them, tabulated over the commits of CommitKinds
Processed ==
    [c \in {ContentOf(CommitKinds[k]) : k \in 1..Len(CommitKinds)} |->
        [skip |-> should_skip_commit(c),
         formatted |-> format_commit_message(c.message, ResolveAuthor(c)),
         category |-> categorize_commit(c.message, c.files)]]

commit_data(commit, repo_name) ==
    [sha |-> commit.sha,
     message |-> commit.message,
     author |-> ResolveAuthor(commit),
     date |-> commit.date,
     files |-> commit.files,
     formatted |-> Processed[ContentOf(commit)].formatted,
     category |-> Processed[ContentOf(commit)].category,
     repo |-> repo_name]

\* the loop of get_recent_commits over the repository's commits, newest first
RECURSIVE HarvestFrom(_, _, _, _, _, _)
HarvestFrom(history, i, since_date, repo_name, seen_hashes, commits) ==
    IF i > Len(history) THEN commits
    ELSE IF history[i].date <= since_date THEN commits
    ELSE IF Processed[ContentOf(history[i])].skip
         THEN HarvestFrom(history, i + 1, since_date, repo_name, seen_hashes, commits)
    ELSE LET data == commit_data(history[i], repo_name)
             commit_hash == get_commit_hash(data)
         IN  IF commit_hash \notin seen_hashes
             THEN HarvestFrom(history, i + 1, since_date, repo_name,
                              seen_hashes \cup {commit_hash}, Append(commits, data))
             ELSE HarvestFrom(history, i + 1, since_date, repo_name, seen_hashes, commits)

get_recent_commits(history, repo_name, since_date) ==
    HarvestFrom(history, 1, since_date, repo_name, {}, <<>>)

(***************************************************************************)
(* Assembler                                                               *)
(***************************************************************************)
\* sorted(commits, key=date, reverse=True): stable, newest first
RECURSIVE InsertByDate(_, _)
InsertByDate(sorted, c) ==
    IF Len(sorted) = 0 THEN <<c>>
    ELSE IF sorted[1].date >= c.date THEN <<sorted[1]>> \o InsertByDate(Tail(sorted), c)
    ELSE <<c>> \o sorted
RECURSIVE SortFrom(_, _, _)
SortFrom(commits, i, sorted) ==
    IF i > Len(commits) THEN sorted
    ELSE SortFrom(commits, i + 1, InsertByDate(sorted, commits[i]))
sort_commits(commits) == SortFrom(commits, 1, <<>>)

\* the grouping loop of update_changelog: category -> formatted lines, in order
\* (a category without commits maps to the empty list)
RECURSIVE GroupFrom(_, _, _)
GroupFrom(commits, i, grouped) ==
    IF i > Len(commits) THEN grouped
    ELSE GroupFrom(commits, i + 1,
                   [grouped EXCEPT ![commits[i].category] =
                        Append(@, commits[i].formatted)])
NoGroups == [c \in {CategoryOrder[i] : i \in 1..Len(CategoryOrder)} |-> <<>>]
GroupCommits(commits) == GroupFrom(commits, 1, NoGroups)

\* sorted(CATEGORIES.items(), key=priority): stable, ascending
RECURSIVE InsertByPriority(_, _)
InsertByPriority(sorted, c) ==
    IF Len(sorted) = 0 THEN <<c>>
    ELSE IF CategoryPriority(sorted[1]) <= CategoryPriority(c)
         THEN <<sorted[1]>> \o InsertByPriority(Tail(sorted), c)
    ELSE <<c>> \o sorted
RECURSIVE SortCategoriesFrom(_, _)
SortCategoriesFrom(i, sorted) ==
    IF i > Len(CategoryOrder) THEN sorted
    ELSE SortCategoriesFrom(i + 1, InsertByPriority(sorted, CategoryOrder[i]))
sorted_categories == SortCategoriesFrom(1, <<>>)

\* os.environ.get('CHANGELOG_STATS', 'false'): unset
CHANGELOG_STATS == "false"

RECURSIVE Bullets(_)
Bullets(formatted) ==
    IF Len(formatted) = 0 THEN <<>>
    ELSE <<"- " \o formatted[1]>> \o Bullets(Tail(formatted))

RECURSIVE CategoryLines(_, _)
CategoryLines(i, grouped) ==
    IF i > Len(sorted_categories) THEN <<>>
    ELSE (IF Len(grouped[sorted_categories[i]]) > 0
          THEN <<"### " \o CategoryName(sorted_categories[i]) \o NL>>
                   \o Bullets(grouped[sorted_categories[i]]) \o <<"">>
          ELSE <<>>)
         \o CategoryLines(i + 1, grouped)

RECURSIVE TotalCommits(_, _)
TotalCommits(i, grouped) ==
    IF i > Len(CategoryOrder) THEN 0
    ELSE Len(grouped[CategoryOrder[i]]) + TotalCommits(i + 1, grouped)

\* the list of strings generate_changelog_entry returns; None is <<>>
generate_changelog_entry(grouped, release_date) ==
    LET body == CategoryLines(1, grouped) IN
    IF Len(body) = 0 THEN <<>>
    ELSE <<NL \o "## [" \o release_date \o "]" \o NL>>
         \o body
         \o (IF Lower(CHANGELOG_STATS) = "true"
             THEN <<NL \o "**Total changes:** " \o ToString(TotalCommits(1, grouped))
                       \o " commits" \o NL>>
             ELSE <<>>)
         \o <<"---" \o NL>>

\* f"## [{RELEASE_DATE}]" in content
SectionExistsNever(text, release_date) == FALSE
SectionExists(text, release_date) == Contains(text, "## [" \o release_date \o "]")

\* a merge that splits at the last marker instead of the first
MergeAtLastMarker(text, entry) ==
    LET marks == Occurrences(text, "---")
        last == CHOOSE i \in marks : \A j \in marks : j <= i
        title_end == Find(text, NL \o NL)
    IN  IF marks # {}
        THEN Upto(text, last - 1) \o "---" \o NL \o Concat(entry) \o From(text, last + 2)
        ELSE IF title_end # 0
             THEN Upto(text, title_end + 1) \o "---" \o NL \o Concat(entry)
                      \o From(text, title_end + 1)
             ELSE text \o NL \o "---" \o NL \o Concat(entry)

\* the splice of update_changelog: at the first '---', else behind the first
\* '\n\n', else at the end
Merge(text, entry) ==
    LET marker == Find(text, "---")
        title_end == Find(text, NL \o NL)
    IN  IF marker # 0
        THEN Upto(text, marker - 1) \o "---" \o NL \o Concat(entry)
                 \o From(text, marker + 2)
        ELSE IF title_end # 0
             THEN Upto(text, title_end + 1) \o "---" \o NL \o Concat(entry)
                      \o From(text, title_end + 1)
             ELSE text \o NL \o "---" \o NL \o Concat(entry)

BannerPrefix == "{1F4C5} Release date: **"

\* the 0-based offset behind the first match of the banner pattern in s, when
\* the match starts at i: the prefix, then .*? up to the nearest ** on the line
BannerEnd(s, i) ==
    LET behind == From(s, i - 1 + Len(BannerPrefix))
        close == Find(behind, "**")
    IN  IF At(s, i, BannerPrefix) /\ close > 0 /\ ~Contains(Upto(behind, close - 1), NL)
        THEN i - 1 + Len(BannerPrefix) + close + 1
        ELSE 0
BannerStarts(s) == {i \in Occurrences(s, BannerPrefix) : BannerEnd(s, i) > 0}

\* re.sub(date_pattern, new_date_line, content)
RECURSIVE ReplaceBanners(_, _)
ReplaceBanners(s, new_date_line) ==
    LET starts == BannerStarts(s) IN
    IF starts = {} THEN s
    ELSE LET i == Least(starts) IN
         Upto(s, i - 1) \o new_date_line
             \o ReplaceBanners(From(s, BannerEnd(s, i)), new_date_line)

\* lines.insert(i, x)
InsertAt(lines, i, x) == SubSeq(lines, 1, i - 1) \o <<x>> \o SubSeq(lines, i, Len(lines))

\* update_release_date: [ok |-> FALSE] stands for the ValueError of strptime
update_release_date(text, release_date) ==
    IF strptime(release_date) = ParseError THEN [ok |-> FALSE, text |-> text]
    ELSE LET new_date_line == BannerPrefix \o FormatLong(strptime(release_date)) \o "**"
             lines == SplitLines(text)
             blanks == {i \in 2..Len(lines) : Strip(lines[i]) = ""}
         IN  IF BannerStarts(text) # {}
             THEN [ok |-> TRUE, text |-> ReplaceBanners(text, new_date_line)]
             ELSE IF blanks # {}
                  THEN [ok |-> TRUE,
                        text |-> JoinLines(InsertAt(lines, Least(blanks), new_date_line))]
                  ELSE [ok |-> TRUE, text |-> JoinLines(Append(lines, new_date_line))]

(***************************************************************************)
(* The environment: two repositories, the clock, the changelog file         *)
(***************************************************************************)
MaxTime == 2
MaxCommits == 1
MaxRuns == 2

\* CHANGELOG.md before the first run: title and marker; title only; a title
\* without a blank line (and, with fileExists = FALSE, no file)
InitialDocs == {"# Changelog\n\n---\n", "# Changelog\n\n", "# Changelog"}

Today == FormatIso(DateOf(now))

\* the RELEASE_DATE (default: today's date) and DAYS_BACK (default: unset)
\* environment variables of a run
RunEnvironments ==
    {<<Today, "">>, <<"v1.0", "">>, <<Today, "1">>}

Idle == pc = "idle"

Locals == <<last_date, all_commits, categorized_commits, content, new_entry, preMerge>>
Environment == <<now, repos, nextSha, pkgPresent>>
History == <<listed, overrideUsed, runs>>

\* the unit harness is not in use
UnitOff ==
    /\ u_pc = "off"
    /\ u_msg = ""
    /\ u_files = <<>>
    /\ u_out = ""

Init ==
    /\ now = 1
    /\ repos = [main |-> <<>>, packages |-> <<>>]
    /\ nextSha = 1
    /\ pkgPresent \in BOOLEAN
    /\ \/ fileExists = TRUE /\ doc \in InitialDocs
       \/ fileExists = FALSE /\ doc = ""
    /\ pc = "idle"
    /\ RELEASE_DATE = ""
    /\ DAYS_BACK = ""
    /\ last_date = 0
    /\ all_commits = <<>>
    /\ categorized_commits = NoGroups
    /\ content = ""
    /\ new_entry = <<>>
    /\ exit_status = "none"
    /\ writes = 0
    /\ docAtStart = doc
    /\ preMerge = ""
    /\ listed = {}
    /\ overrideUsed = FALSE
    /\ runs = 0
    /\ UnitOff

\* time passes (while a further run can still observe it)
Tick ==
    /\ Idle
    /\ runs < MaxRuns
    /\ now < MaxTime
    /\ now' = now + 1
    /\ UNCHANGED <<repos, nextSha, pkgPresent, fileExists, doc, pc, RELEASE_DATE,
                   DAYS_BACK, exit_status, writes, docAtStart>>
    /\ UNCHANGED <<Locals, History, unitVars>>

\* git commit in one of the repositories
Commit ==
    /\ Idle
    /\ runs < MaxRuns
    /\ nextSha <= MaxCommits
    /\ \E k \in 1..Len(CommitKinds) :
          /\ CommitKinds[k].repo = "packages" => pkgPresent
          /\ repos' = [repos EXCEPT ![CommitKinds[k].repo] =
                       << [sha |-> "c" \o ToString(nextSha),
                           message |-> CommitKinds[k].message,
                           author |-> CommitKinds[k].author,
                           committer |-> CommitKinds[k].committer,
                           parents |-> CommitKinds[k].parents,
                           files |-> CommitKinds[k].files,
                           date |-> now] >> \o @]
    /\ nextSha' = nextSha + 1
    /\ UNCHANGED <<now, pkgPresent, fileExists, doc, pc, RELEASE_DATE,
                   DAYS_BACK, exit_status, writes, docAtStart>>
    /\ UNCHANGED <<Locals, History, unitVars>>

\* the newest commit of the main repository enters the packages repository
\* unchanged (shared history)
Mirror ==
    /\ Idle
    /\ runs < MaxRuns
    /\ pkgPresent
    /\ Len(repos.main) > 0
    /\ \A i \in 1..Len(repos.packages) :
          /\ repos.packages[i].sha # repos.main[1].sha
          /\ repos.packages[i].date <= repos.main[1].date
    /\ repos' = [repos EXCEPT !.packages = <<repos.main[1]>> \o @]
    /\ UNCHANGED <<now, nextSha, pkgPresent, fileExists, doc, pc, RELEASE_DATE,
                   DAYS_BACK, exit_status, writes, docAtStart>>
    /\ UNCHANGED <<Locals, History, unitVars>>

(***************************************************************************)
(* update_changelog, step by step                                          *)
(***************************************************************************)
\* the script starts: last_date = get_last_changelog_date(), then the commits
\* of the main and of the packages repository
StartRun ==
    /\ Idle
    /\ runs < MaxRuns
    /\ \E env \in RunEnvironments :
          LET since == get_last_changelog_date(env[2], fileExists, doc, now) IN
          /\ RELEASE_DATE' = env[1]
          /\ DAYS_BACK' = env[2]
          /\ overrideUsed' = (overrideUsed \/ env[2] # "")
          /\ last_date' = since
          /\ all_commits' =
                get_recent_commits(repos.main, "main", since)
                \o (IF pkgPresent
                    THEN get_recent_commits(repos.packages, "packages", since)
                    ELSE <<>>)
    /\ pc' = "harvested"
    /\ exit_status' = "none"
    /\ writes' = 0
    /\ docAtStart' = doc
    /\ runs' = runs + 1
    /\ UNCHANGED <<Environment, fileExists, doc, categorized_commits, content,
                   new_entry, preMerge, listed, unitVars>>

\* "No new commits found since last changelog update.": return
ReturnNoCommits ==
    /\ pc = "harvested"
    /\ Len(all_commits) = 0
    /\ pc' = "done"
    /\ exit_status' = "success"
    /\ UNCHANGED <<Environment, fileExists, doc, RELEASE_DATE, DAYS_BACK, Locals,
                   writes, docAtStart, History, unitVars>>

\* CHANGELOG.md as the run reads it (a missing file reads as the skeleton)
ReadChangelog == IF fileExists THEN doc ELSE "# Changelog" \o NL \o NL

\* sort, group, read: "Release date ... already exists in changelog", return
ReturnAlreadyExists ==
    /\ pc = "harvested"
    /\ Len(all_commits) > 0
    /\ SectionExists(ReadChangelog, RELEASE_DATE)
    /\ all_commits' = sort_commits(all_commits)
    /\ categorized_commits' = GroupCommits(sort_commits(all_commits))
    /\ content' = ReadChangelog
    /\ preMerge' = ReadChangelog
    /\ pc' = "done"
    /\ exit_status' = "success"
    /\ UNCHANGED <<Environment, fileExists, doc, RELEASE_DATE, DAYS_BACK, last_date,
                   new_entry, writes, docAtStart, History, unitVars>>

\* sort, group, read: new_entry = generate_changelog_entry(...), spliced into
\* content
RenderAndMerge ==
    /\ pc = "harvested"
    /\ Len(all_commits) > 0
    /\ ~SectionExists(ReadChangelog, RELEASE_DATE)
    /\ LET grouped == GroupCommits(sort_commits(all_commits))
           entry == generate_changelog_entry(grouped, RELEASE_DATE)
       IN  /\ all_commits' = sort_commits(all_commits)
           /\ categorized_commits' = grouped
           /\ new_entry' = entry
           /\ preMerge' = ReadChangelog
           /\ content' = (IF Len(entry) > 0 THEN Merge(ReadChangelog, entry)
                          ELSE ReadChangelog)
    /\ pc' = "merged"
    /\ UNCHANGED <<Environment, fileExists, doc, RELEASE_DATE, DAYS_BACK, last_date,
                   exit_status, writes, docAtStart, History, unitVars>>

\* a step that writes the merged text before the banner is updated
WriteThenUpdateReleaseDate ==
    /\ pc = "merged"
    /\ doc' = content
    /\ fileExists' = TRUE
    /\ writes' = writes + 1
    /\ LET updated == update_release_date(content, RELEASE_DATE) IN
       IF updated.ok
       THEN /\ content' = updated.text
            /\ pc' = "bannered"
            /\ UNCHANGED exit_status
       ELSE /\ pc' = "done"
            /\ exit_status' = "failure"
            /\ UNCHANGED content
    /\ UNCHANGED <<Environment, RELEASE_DATE, DAYS_BACK, last_date, all_commits,
                   categorized_commits, new_entry, preMerge, docAtStart, History,
                   unitVars>>

\* content = update_release_date(content, RELEASE_DATE); a ValueError reaches
\* the handler of __main__: sys.exit(1)
UpdateReleaseDate ==
    /\ pc = "merged"
    /\ LET updated == update_release_date(content, RELEASE_DATE) IN
       IF updated.ok
       THEN /\ content' = updated.text
            /\ pc' = "bannered"
            /\ UNCHANGED exit_status
       ELSE /\ pc' = "done"
            /\ exit_status' = "failure"
            /\ UNCHANGED content
    /\ UNCHANGED <<Environment, fileExists, doc, RELEASE_DATE, DAYS_BACK, last_date,
                   all_commits, categorized_commits, new_entry, preMerge, writes,
                   docAtStart, History, unitVars>>

\* with open(CHANGELOG_PATH, 'w') as f: f.write(content), and the summary
WriteChangelog ==
    /\ pc = "bannered"
    /\ doc' = content
    /\ fileExists' = TRUE
    /\ writes' = writes + 1
    /\ listed' = listed \cup {<<all_commits[i].sha, RELEASE_DATE>> : i \in 1..Len(all_commits)}
    /\ pc' = "done"
    /\ exit_status' = "success"
    /\ UNCHANGED <<Environment, RELEASE_DATE, DAYS_BACK, Locals, docAtStart,
                   overrideUsed, runs, unitVars>>

\* the process has exited; its locals are gone
Exit ==
    /\ pc = "done"
    /\ pc' = "idle"
    /\ last_date' = 0
    /\ all_commits' = <<>>
    /\ categorized_commits' = NoGroups
    /\ content' = ""
    /\ new_entry' = <<>>
    /\ preMerge' = ""
    /\ RELEASE_DATE' = ""
    /\ DAYS_BACK' = ""
    /\ exit_status' = "none"
    /\ writes' = 0
    /\ docAtStart' = doc
    /\ UNCHANGED <<Environment, fileExists, doc, History, unitVars>>

Next ==
    \/ Tick
    \/ Commit
    \/ Mirror
    \/ StartRun
    \/ ReturnNoCommits
    \/ ReturnAlreadyExists
    \/ RenderAndMerge
    \/ UpdateReleaseDate
    \/ WriteChangelog
    \/ Exit

Spec == Init /\ [][Next]_vars

(***************************************************************************)
(* Unit harness: the classifier and the formatter applied to bounded       *)
(* inputs.                                                                 *)
(***************************************************************************)
MaxWords == 2
MaxFiles == 2
MaxFrags == 3

ClassifyWords == {"improve", "auth", "readme", "tidy"}
FilePaths == {"README.md", ".github/ci.yml", "package/Makefile", "src/main.c"}
FormatWords == {"fix", "fixes", "closes", "#42", "(#42)", "leak"}

\* the sequences over S of length at most n
SeqsUpTo(S, n) == UNION {[1..k -> S] : k \in 0..n}

RECURSIVE JoinWords(_)
JoinWords(ws) ==
    IF Len(ws) = 0 THEN ""
    ELSE IF Len(ws) = 1 THEN ws[1]
    ELSE ws[1] \o " " \o JoinWords(Tail(ws))

UnitAuthor == "alice"

RunIdle ==
    /\ now = 0
    /\ repos = [main |-> <<>>, packages |-> <<>>]
    /\ nextSha = 1
    /\ pkgPresent = TRUE
    /\ fileExists = TRUE
    /\ doc = ""
    /\ pc = "off"
    /\ RELEASE_DATE = ""
    /\ DAYS_BACK = ""
    /\ last_date = 0
    /\ all_commits = <<>>
    /\ categorized_commits = NoGroups
    /\ content = ""
    /\ new_entry = <<>>
    /\ exit_status = "none"
    /\ writes = 0
    /\ docAtStart = ""
    /\ preMerge = ""
    /\ listed = {}
    /\ overrideUsed = FALSE
    /\ runs = 0

ClassifyInit ==
    /\ RunIdle
    /\ u_pc = "ready"
    /\ u_msg \in {JoinWords(ws) : ws \in SeqsUpTo(ClassifyWords, MaxWords)}
    /\ u_files \in SeqsUpTo(FilePaths, MaxFiles)
    /\ u_out = ""

Classify ==
    /\ u_pc = "ready"
    /\ u_out' = categorize_commit(u_msg, u_files)
    /\ u_pc' = "classified"
    /\ UNCHANGED <<u_msg, u_files>>
    /\ UNCHANGED runVars

SpecClassify == ClassifyInit /\ [][Classify]_vars

FormatInit ==
    /\ RunIdle
    /\ u_pc = "ready"
    /\ u_msg \in {JoinWords(ws) : ws \in SeqsUpTo(FormatWords, MaxFrags)}
    /\ u_files = <<>>
    /\ u_out = ""

Format ==
    /\ u_pc = "ready"
    /\ u_out' = format_commit_message(u_msg, UnitAuthor)
    /\ u_pc' = "formatted"
    /\ UNCHANGED <<u_msg, u_files>>
    /\ UNCHANGED runVars

SpecFormat == FormatInit /\ [][Format]_vars

(***************************************************************************)
(* Claims about the classifier and the formatter                           *)
(***************************************************************************)
Categories == {CategoryOrder[i] : i \in 1..Len(CategoryOrder)}

NoMessagePattern(m) ==
    LET lowered == Lower(m) IN
    \A c \in Categories : \A k \in 1..NumPatterns(c) : ~PatternMatches(c, k, lowered)

\* the scores of all categories, in declared order
RECURSIVE AllScoresFrom(_, _, _)
AllScoresFrom(i, commit_msg_lower, lowered_files) ==
    IF i > Len(CategoryOrder) THEN <<>>
    ELSE <<CategoryScore(CategoryOrder[i], commit_msg_lower, lowered_files)>>
             \o AllScoresFrom(i + 1, commit_msg_lower, lowered_files)
AllScores(m, fs) == AllScoresFrom(1, Lower(m), LowerAll(fs))

\* C4: a changed file adds at most 1 to a category's score, so a commit whose
\* message matches no message pattern and that changes exactly one file is
\* classified 'other'.
C4_SingleFileIsOther ==
    (u_pc = "classified" /\ Len(u_files) = 1 /\ NoMessagePattern(u_msg))
        => /\ \A i \in 1..Len(CategoryOrder) : AllScores(u_msg, u_files)[i] <= 1
           /\ u_out = "other"

MaxOf(scores) == CHOOSE v \in {scores[i] : i \in 1..Len(scores)} :
                     \A i \in 1..Len(scores) : scores[i] <= v
TiedAtMax(scores) == {i \in 1..Len(scores) : scores[i] = MaxOf(scores)}

\* C5: when several categories share the maximum score and that score is at
\* least 2, the result is the one declared first in the category table.
C5_TieGoesToFirstDeclared ==
    u_pc = "classified" =>
        LET scores == AllScores(u_msg, u_files) IN
        (MaxOf(scores) >= 2 /\ Cardinality(TiedAtMax(scores)) >= 2)
            => u_out = CategoryOrder[Least(TiedAtMax(scores))]

\* a tie between 'improvements' (by the message) and 'documentation' (by the
\* files) was resolved for 'improvements'
C5_Witness ==
    /\ u_pc = "classified"
    /\ u_msg = "improve"
    /\ u_files = <<"README.md">>
    /\ TiedAtMax(AllScores(u_msg, u_files)) = {3, 8}
    /\ u_out = "improvements"

\* the phrases the claim names, and the numbers N such that one of them,
\* followed by #N, occurs in m
ClaimedPhrases == {"fix", "fixes", "close", "closes", "resolve", "resolves"}
ClaimedIssueNumbers(m) ==
    {Upto(From(m, j), DigitRun(From(m, j))) :
        j \in {j \in 1..Len(m) :
                 /\ At(m, j, "#")
                 /\ DigitRun(From(m, j)) > 0
                 /\ \E p \in ClaimedPhrases : \E i \in 1..j :
                       /\ At(Lower(m), i, p)
                       /\ i + Len(p) + SpaceRun(From(m, i - 1 + Len(p))) = j}}

\* the formatted line without its " by @<author>" suffix
MessagePart(line, author) == Upto(line, Len(line) - Len(" by @" \o author))

\* C6: a message with an issue-closing phrase followed by #N and without (#N)
\* is formatted to end in (#N); a message that holds (#N) gets no further (#N).
C6_IssueAnnotated ==
    u_pc = "formatted" =>
        \A n \in ClaimedIssueNumbers(u_msg) :
            LET tag == "(#" \o n \o ")" IN
            /\ ~Contains(u_msg, tag) => EndsWith(MessagePart(u_out, UnitAuthor), tag)
            /\ Contains(u_msg, tag) => Count(u_out, tag) = Count(u_msg, tag)

(***************************************************************************)
(* Claims about the runs of update_changelog                               *)
(***************************************************************************)
\* the release labels a run can carry
Labels == {FormatIso(DateOf(t)) : t \in 0..MaxTime} \cup {"v1.0"}
Heading(label) == "## [" \o label \o "]"
Running == pc \in {"harvested", "merged", "bannered", "done"}

\* C1: the document holds at most one "## [L]" heading per release label L, and
\* a run whose label has a heading in the document writes nothing and leaves
\* the document unchanged.
C1_OneHeadingPerLabel ==
    /\ LET headings == Occurrences(doc, "## [") IN
       \A label \in Labels :
           Cardinality({i \in headings : At(doc, i, Heading(label))}) <= 1
    /\ (Running /\ fileExists /\ Contains(docAtStart, Heading(RELEASE_DATE)))
           => /\ pc \in {"harvested", "done"}
              /\ writes = 0
              /\ doc = docAtStart

\* a run with commits has ended at a document that held its label's heading
C1_Witness ==
    /\ pc = "done"
    /\ Len(all_commits) > 0
    /\ Contains(docAtStart, Heading(RELEASE_DATE))
    /\ exit_status = "success"

\* C2: no two commits handed to the assembler share a fingerprint, also when
\* the main and the packages repository yield the same commit.
C2_NoSharedFingerprint ==
    \A i, j \in 1..Len(all_commits) :
        i # j => get_commit_hash(all_commits[i]) # get_commit_hash(all_commits[j])

\* scenario A: title, blank line and marker; one kept commit "fix: resolve
\* login crash" without changed files; the run has written
ScenarioA ==
    /\ pc = "done"
    /\ writes = 1
    /\ preMerge = "# Changelog" \o NL \o NL \o "---" \o NL
    /\ Len(all_commits) = 1
    /\ all_commits[1].message = "fix: resolve login crash"
    /\ all_commits[1].files = <<>>

\* the text behind the first marker of the document
BehindFirstMarker(text) == From(text, Find(text, "---") + 2)

RECURSIVE ExpectedBody(_)
ExpectedBody(i) ==
    IF i > Len(sorted_categories) THEN <<>>
    ELSE LET mine == SelectSeq(all_commits,
                               LAMBDA c : c.category = sorted_categories[i])
         IN  (IF Len(mine) = 0 THEN <<>>
              ELSE <<"### " \o CategoryName(sorted_categories[i])>>
                       \o [k \in 1..Len(mine) |-> "- " \o mine[k].formatted])
             \o ExpectedBody(i + 1)
NonBlank(lines) == SelectSeq(lines, LAMBDA l : l # "")

\* C7: the spliced section lists the non-empty categories in ascending priority,
\* each as a heading line followed by one bullet line per commit, newest first;
\* no two bullets, and no bullet and the closing marker, share a line.
C7_SeparateBulletLines ==
    (pc = "merged" /\ Len(new_entry) > 0) =>
        /\ Contains(content, Concat(new_entry))
        /\ NonBlank(SplitLines(Concat(new_entry)))
               = <<Heading(RELEASE_DATE)>> \o ExpectedBody(1) \o <<"---">>

\* C8: a run writes the file at most once, and what it writes is the merged
\* text with the banner updated; a run without commits ends with success and
\* without a write; a run that fails has not written.
C8_SingleWriteAtEnd ==
    /\ writes <= 1
    /\ writes = 1 =>
          /\ pc = "done"
          /\ exit_status = "success"
          /\ doc = content
          /\ new_entry = generate_changelog_entry(categorized_commits, RELEASE_DATE)
          /\ content = update_release_date(
                           IF Len(new_entry) > 0 THEN Merge(preMerge, new_entry)
                           ELSE preMerge, RELEASE_DATE).text
    /\ writes = 0 => doc = docAtStart
    /\ (pc = "done" /\ Len(all_commits) = 0) => (exit_status = "success" /\ writes = 0)
    /\ exit_status = "failure" => (writes = 0 /\ doc = docAtStart)

\* update_release_date has raised in a run that had merged its entry
C8_Witness ==
    /\ pc = "done"
    /\ exit_status = "failure"
    /\ Len(all_commits) > 0
    /\ Len(new_entry) > 0
    /\ writes = 0

\* C9: the merge only inserts: behind the first marker, else (with a marker
\* line of its own) behind the first blank line, else at the end; the text
\* before and after the insertion is the original, unchanged and in order.
C9_MergeOnlyInserts ==
    (pc = "merged" /\ Len(new_entry) > 0) =>
        LET section == Concat(new_entry)
            markers == Occurrences(preMerge, "---")
            blanks == Occurrences(preMerge, NL \o NL)
        IN  IF markers # {}
            THEN content = Upto(preMerge, Least(markers) + 2) \o NL \o section
                               \o From(preMerge, Least(markers) + 2)
            ELSE IF blanks # {}
                 THEN content = Upto(preMerge, Least(blanks) + 1) \o "---" \o NL
                                    \o section \o From(preMerge, Least(blanks) + 1)
                 ELSE content = preMerge \o NL \o "---" \o NL \o section

\* a section was merged into a document that held a section (and so two markers)
C9_Witness ==
    /\ pc = "merged"
    /\ Len(new_entry) > 0
    /\ Contains(preMerge, "## [")
    /\ Cardinality(Occurrences(preMerge, "---")) >= 2

\* C10: without a DAYS_BACK override no commit is listed under two release
\* labels.
C10_ListedOnce ==
    ~overrideUsed =>
        \A x, y \in listed : x[1] = y[1] => x[2] = y[2]

====
